---- MODULE Spec2Model ----
(***************************************************************************)
(* A model of the FMP playground scripts:                                  *)
(*   scripts/fetch_financial_data.py      the single-symbol fetch command  *)
(*   scripts/fetch_all_companies_data.py  the batch command                *)
(*   src/fmp_playground/fetch_financial_data.py  client and resolver       *)
(*   scripts/get_us_companies.py, get_companies_by_country.py,             *)
(*   get_countries.py                     the listing utilities            *)
(* Strings are sequences of one-character strings, so that replace, split, *)
(* isdigit, startswith and endswith are computed as Python computes them.  *)
(***************************************************************************)
EXTENDS Integers, Sequences, FiniteSets, Bags, TLC

VARIABLES
    assets,                 \* reference directory: file name -> list of company records
    files,                  \* output directory data/financial_statements: file name -> bundle
    now,                    \* the clock when last read, in seconds after 2024-01-01 00:00:00
    run,                    \* number of batch runs started so far
    phase,                  \* position of the batch command's main()
    workers,                \* args.workers
    processed,              \* main(): processed
    companies,              \* main(): companies
    companies_to_process,   \* main(): companies_to_process
    futures,                \* main(): futures, the companies submitted so far
    taken,                  \* work items the pool threads have taken off the queue
    cur,                    \* per pool thread: the work unit it is executing (0: idle)
    started,                \* per work unit: times fetch_company_data was entered
    pc,                     \* per work unit: position of its fetch
    issued,                 \* per work unit: the HTTP requests issued, in order
    replies,                \* per work unit: per request issued, "pending", "ok",
                            \* "error" or "hung"
    output_file,            \* per work unit: the file it wrote (<<>>: none)
    result,                 \* per work unit: outcome of its future
    collected,              \* futures whose result main() has collected
    success,                \* main(): success
    failure,                \* main(): failure
    resolved,               \* per work unit: company, country of its fetch command
    args_symbol,            \* --symbol of a stand-alone run of the fetch command
    command,                \* the script that is run
    env_file,               \* whether the file .env exists in the working directory
    api_key,                \* os.getenv('FMP_API_KEY') after load_dotenv()
    call,                   \* the arguments of a call of a statement accessor
    progress,               \* main(): the totals at which a progress line was logged
    stock_list              \* get_stock_list(): response.json() of the last stock/list request

vars == <<assets, files, now, run, phase, workers, processed, companies,
          companies_to_process, futures, taken, cur, started, pc, issued, replies,
          output_file, result, collected, success, failure, resolved, args_symbol,
          command, env_file, api_key, call,
          progress, stock_list>>

----------------------------------------------------------------------------
(* Bounds of the model. *)
MaxWorkers == 2
MaxClock == 1
MaxRuns == 2
MaxCompanies == 3
MaxSymLen == 3
MaxLimit == 6
MaxFutures == 21
MaxListings == 2

----------------------------------------------------------------------------
(* Python str and pathlib operations, on sequences of characters. *)

DigitChar == <<"0", "1", "2", "3", "4", "5", "6", "7", "8", "9">>

Digits == {DigitChar[i] : i \in 1..Len(DigitChar)}

\* str.isdigit(): non-empty and every character a digit
IsDigit(s) == Len(s) > 0 /\ \A i \in 1..Len(s) : s[i] \in Digits

\* str.replace(old, new) for one-character old and new
Replace(s, old, new) == [i \in 1..Len(s) |-> IF s[i] = old THEN new ELSE s[i]]

StartsWith(s, pre) == Len(pre) <= Len(s) /\ SubSeq(s, 1, Len(pre)) = pre

EndsWith(s, suf) ==
    Len(suf) <= Len(s) /\ SubSeq(s, Len(s) - Len(suf) + 1, Len(s)) = suf

\* str.split(sep) for a one-character sep: empty pieces are kept
RECURSIVE Split(_, _)
Split(s, sep) ==
    IF \A i \in 1..Len(s) : s[i] # sep
    THEN <<s>>
    ELSE LET i == CHOOSE k \in 1..Len(s) :
                      s[k] = sep /\ \A j \in 1..(k - 1) : s[j] # sep
         IN <<SubSeq(s, 1, i - 1)>> \o Split(SubSeq(s, i + 1, Len(s)), sep)

DotJson == <<".", "j", "s", "o", "n">>

\* PurePath.stem: the name without its last suffix
PathStem(name) ==
    LET dots == {i \in 1..Len(name) : name[i] = "."}
    IN IF dots = {} THEN name
       ELSE LET i == CHOOSE k \in dots : \A j \in dots : j <= k
            IN IF 1 < i /\ i < Len(name) THEN SubSeq(name, 1, i - 1) ELSE name

\* two decimal digits, as %H, %M and %S print them
TwoDigits(n) == <<DigitChar[((n \div 10) % 10) + 1], DigitChar[(n % 10) + 1]>>

\* datetime.now().strftime('%Y%m%d_%H%M%S')
Strftime(t) ==
    <<"2", "0", "2", "4", "0", "1", "0", "1">> \o <<"_">>
        \o TwoDigits((t \div 3600) % 24) \o TwoDigits((t \div 60) % 60)
        \o TwoDigits(t % 60)

----------------------------------------------------------------------------
(* The output directory. *)

\* f"{args.symbol.replace('.', '_')}_{timestamp}.json"
OutputFileName(symbol, t) ==
    Replace(symbol, ".", "_") \o <<"_">> \o Strftime(t) \o DotJson

\* the symbol get_processed_companies reads off one file name
ParsedSymbol(parts) ==
    IF ~IsDigit(parts[2]) THEN parts[1] \o <<".">> \o parts[2] ELSE parts[1]

\* get_processed_companies(): the symbols inferred from the names of the *.json files
get_processed_companies(dir) ==
    {ParsedSymbol(Split(PathStem(f), "_")) :
        f \in {g \in DOMAIN dir : EndsWith(g, DotJson)
                                  /\ Len(Split(PathStem(g), "_")) >= 2}}

----------------------------------------------------------------------------
(* The reference directory and the company resolver. *)

\* a key a record does not have
Absent == "<absent>"

Companies_json ==
    <<"_", "c", "o", "m", "p", "a", "n", "i", "e", "s">> \o DotJson

\* the files get_companies_by_country.py and get_us_companies.py write
US_NASDAQ_file == <<"U", "S", "_", "N", "A", "S", "D", "A", "Q">> \o Companies_json
KR_KSC_file == <<"K", "R", "_", "K", "S", "C">> \o Companies_json
us_file == <<"u", "s">> \o Companies_json

\* load_companies: country_exchanges
country_exchanges ==
    [c \in {"KR", "US", "JP", "CN", "HK"} |->
        CASE c = "KR" -> {<<"K", "R", "_", "K", "S", "C">>, <<"K", "R", "_", "K", "O", "E">>}
          [] c = "US" -> {<<"U", "S", "_", "N", "Y", "S", "E">>,
                          <<"U", "S", "_", "N", "A", "S", "D", "A", "Q">>,
                          <<"U", "S", "_", "A", "M", "E", "X">>}
          [] c = "JP" -> {<<"J", "P", "_", "J", "P", "X">>}
          [] c = "CN" -> {<<"C", "N", "_", "S", "H", "H">>, <<"C", "N", "_", "S", "H", "Z">>}
          [] c = "HK" -> {<<"H", "K", "_", "H", "K", "S", "E">>}]

\* the orders in which Path.glob may yield the files of a directory
GlobOrders(dir) ==
    LET names == DOMAIN dir
        n == Cardinality(names)
    IN {o \in [1..n -> names] : \A i, j \in 1..n : i # j => o[i] # o[j]}

RECURSIVE ConcatAll(_)
ConcatAll(lists) ==
    IF lists = <<>> THEN <<>> ELSE Head(lists) \o ConcatAll(Tail(lists))

\* load_companies(country_code), the glob yielding the files in the given order;
\* Absent stands for country_code=None
load_companies(dir, country_code, order) ==
    LET Listed(f) == EndsWith(f, Companies_json)
        Wanted(f) ==
            IF country_code = Absent THEN Listed(f)
            ELSE Listed(f) /\ \E ex \in country_exchanges[country_code] :
                                  StartsWith(PathStem(f), ex)
        company_files == SelectSeq(order, Wanted)
    IN ConcatAll([i \in 1..Len(company_files) |-> dir[company_files[i]]])

\* find_company_by_symbol: suffix_to_country, in the dict's order
suffix_to_country ==
    << [suffix |-> <<".", "K", "S">>, country |-> "KR"],
       [suffix |-> <<".", "K", "Q">>, country |-> "KR"],
       [suffix |-> <<".", "T">>, country |-> "JP"],
       [suffix |-> <<".", "S", "S">>, country |-> "CN"],
       [suffix |-> <<".", "S", "Z">>, country |-> "CN"],
       [suffix |-> <<".", "H", "K">>, country |-> "HK"] >>

\* next(c for c in companies if c['symbol'] == symbol): its index, 0 for StopIteration
FirstMatch(list, symbol) ==
    LET hits == {i \in 1..Len(list) : list[i].symbol = symbol}
    IN IF hits = {} THEN 0 ELSE CHOOSE i \in hits : \A j \in hits : i <= j

NotFound == [found |-> FALSE, company |-> Absent, country |-> Absent]

\* find_company_by_symbol(symbol); found = FALSE stands for the ValueError
RECURSIVE FindFrom(_, _, _, _)
FindFrom(dir, symbol, order, k) ==
    IF k > Len(suffix_to_country)
    THEN LET us == load_companies(dir, "US", order)
             i == FirstMatch(us, symbol)
         IN IF i # 0 THEN [found |-> TRUE, company |-> us[i], country |-> "US"]
            ELSE NotFound
    ELSE IF EndsWith(symbol, suffix_to_country[k].suffix)
         THEN LET cs == load_companies(dir, suffix_to_country[k].country, order)
                  i == FirstMatch(cs, symbol)
              IN IF i # 0
                 THEN [found |-> TRUE, company |-> cs[i],
                       country |-> suffix_to_country[k].country]
                 ELSE FindFrom(dir, symbol, order, k + 1)
         ELSE FindFrom(dir, symbol, order, k + 1)

find_company_by_symbol(dir, symbol, order) == FindFrom(dir, symbol, order, 1)

----------------------------------------------------------------------------
(* distribute_companies *)

\* distribute_companies without its skip of the processed symbols
UnprocessedNoSkip(cs, done) == cs

\* the companies the loop of distribute_companies keeps, in the list's order
Unprocessed(cs, done) == SelectSeq(cs, LAMBDA c : c.symbol \notin done)

\* company.get('country', 'UNKNOWN')
CountryOf(c) == IF c.country = Absent THEN "UNKNOWN" ELSE c.country

\* a set of numbers as an ascending list
RECURSIVE Ascending(_)
Ascending(S) ==
    IF S = {} THEN <<>>
    ELSE LET m == CHOOSE x \in S : \A y \in S : x <= y
         IN <<m>> \o Ascending(S \ {m})

\* the keys of companies_by_country, in insertion order
CountryKeys(unp) ==
    LET firsts == {i \in 1..Len(unp) :
                      \A j \in 1..(i - 1) : CountryOf(unp[j]) # CountryOf(unp[i])}
        order == Ascending(firsts)
    IN [k \in 1..Len(order) |-> CountryOf(unp[order[k]])]

\* the outcomes of random.shuffle(companies_list)
Shuffles(list) ==
    {[i \in 1..Len(list) |-> list[p[i]]] : p \in Permutations(1..Len(list))}

\* the country lists after the shuffles, laid end to end in the order of the keys
RECURSIVE ShuffledUpTo(_, _, _)
ShuffledUpTo(unp, keys, k) ==
    IF k = 0 THEN {<<>>}
    ELSE {a \o b : a \in ShuffledUpTo(unp, keys, k - 1),
                   b \in Shuffles(SelectSeq(unp, LAMBDA c : CountryOf(c) = keys[k]))}

\* the companies dealt in blocks: the first ones to the first worker, and so on
DealBlocks(flat, num_workers) ==
    LET size == (Len(flat) + num_workers - 1) \div num_workers
    IN [w \in 1..num_workers |->
           LET mine == Ascending({i \in 1..Len(flat) : (i - 1) \div size = w - 1})
           IN [j \in 1..Len(mine) |-> flat[mine[j]]]]

\* the round robin: the i-th company goes to worker (i - 1) % num_workers
Deal(flat, num_workers) ==
    [w \in 1..num_workers |->
        LET mine == Ascending({i \in 1..Len(flat) : (i - 1) % num_workers = w - 1})
        IN [j \in 1..Len(mine) |-> flat[mine[j]]]]

\* distribute_companies(companies, processed, num_workers): every result the
\* shuffles allow
distribute_companies(cs, done, num_workers) ==
    LET unp == Unprocessed(cs, done)
        keys == CountryKeys(unp)
    IN {Deal(flat, num_workers) : flat \in ShuffledUpTo(unp, keys, Len(keys))}

----------------------------------------------------------------------------
(* The financial data client: the requests of one symbol's fetch. *)

\* limit: Optional[int] = None; an explicit limit n is <<n>>
NoLimit == <<>>

\* the default of the annual period, whatever the period
DefaultLimitAnnual(period, limit) == IF limit = NoLimit THEN 5 ELSE limit[1]

\* limit = 5 if period == 'annual' else 20, when no limit is given
DefaultLimit(period, limit) ==
    IF limit = NoLimit THEN (IF period = "annual" THEN 5 ELSE 20) ELSE limit[1]

Accessor(endpoint, period, limit) ==
    [endpoint |-> endpoint, period |-> period, limit |-> DefaultLimit(period, limit)]

get_income_statement(period, limit) == Accessor("income-statement", period, limit)
get_balance_sheet(period, limit) == Accessor("balance-sheet-statement", period, limit)
get_cash_flow(period, limit) == Accessor("cash-flow-statement", period, limit)
get_financial_ratios(period, limit) == Accessor("ratios", period, limit)
get_key_metrics(period, limit) == Accessor("key-metrics", period, limit)

\* a request with no parameters but the API key
Plain(endpoint) == [endpoint |-> endpoint, period |-> Absent, limit |-> Absent]

\* get_ltm_data without its cash-flow request
get_ltm_data_short ==
    << Plain("income-statement-ltm"), Plain("balance-sheet-statement-ltm") >>

get_ltm_data ==
    << Plain("income-statement-ltm"), Plain("balance-sheet-statement-ltm"),
       Plain("cash-flow-statement-ltm") >>

get_ttm_data == << Plain("ratios-ttm"), Plain("key-metrics-ttm") >>

\* fetch_annual_data and fetch_quarterly_data: the dict literal, evaluated in order
StatementData(period) ==
    << get_income_statement(period, NoLimit), get_balance_sheet(period, NoLimit),
       get_cash_flow(period, NoLimit), get_financial_ratios(period, NoLimit),
       get_key_metrics(period, NoLimit) >>

fetch_annual_data == StatementData("annual")
fetch_quarterly_data == StatementData("quarter")
fetch_ltm_data == get_ltm_data
fetch_ttm_data == get_ttm_data

\* main() of the fetch command: the requests of one run, in program order
RequestPlan ==
    fetch_annual_data \o fetch_quarterly_data \o fetch_ltm_data \o fetch_ttm_data

----------------------------------------------------------------------------
(* The batch command and the fetch commands it starts. *)

Units == 1..Len(pc)

NoFile == <<>>

EmptyDir == [f \in {} |-> Absent]

\* main(): the companies in the order of the two submit loops
SubmitOrder(lists) == ConcatAll(lists)

\* --symbol of a fetch command: the batch command passes company['symbol']
\* (fetch_company_data, line 158), a stand-alone run has its own argument
SymbolOf(u) == IF u \in DOMAIN futures THEN futures[u].symbol ELSE args_symbol

\* if not api_key: the variable is unset or empty
KeyMissing == api_key \in {Absent, ""}

\* response.json(): the upstream answers a request with the data it asks for
UpstreamPayload(symbol, request) ==
    [symbol |-> symbol, endpoint |-> request.endpoint, period |-> request.period]

\* what the calls of a fetch command have returned, in the order of the calls
Responses(u) ==
    [k \in 1..Len(issued[u]) |-> UpstreamPayload(SymbolOf(u), issued[u][k])]

\* the dict of five statements with the first two values exchanged
StatementDictSwapped(r, k) ==
    [income_statement |-> r[k + 1], balance_sheet |-> r[k], cash_flow |-> r[k + 2],
     ratios |-> r[k + 3], metrics |-> r[k + 4]]

\* fetch_annual_data, fetch_quarterly_data: the dict returned, r[k] being the
\* value of the first call
StatementDict(r, k) ==
    [income_statement |-> r[k], balance_sheet |-> r[k + 1], cash_flow |-> r[k + 2],
     ratios |-> r[k + 3], metrics |-> r[k + 4]]

\* the dict json.dump writes (lines 238-245)
Bundle(u) ==
    LET r == Responses(u)
        annual == Len(fetch_annual_data)
        quarterly == annual + Len(fetch_quarterly_data)
        ltm == quarterly + Len(fetch_ltm_data)
    IN [company_info |-> resolved[u].company,
        country |-> resolved[u].country,
        annual_data |-> StatementDict(r, 1),
        quarterly_data |-> StatementDict(r, annual + 1),
        ltm_data |-> [income_statement |-> r[quarterly + 1],
                      balance_sheet |-> r[quarterly + 2],
                      cash_flow |-> r[quarterly + 3]],
        ttm_data |-> [ratios |-> r[ltm + 1], metrics |-> r[ltm + 2]]]

\* the requests of a work unit that are sent and not yet answered; "hung" marks
\* a request that will never be answered
InFlight(u) == {k \in 1..Len(replies[u]) : replies[u][k] \in {"pending", "hung"}}

\* a request of the work unit will never be answered: its fetch never returns
Hung(u) == \E k \in 1..Len(replies[u]) : replies[u][k] = "hung"

\* future.result() returns at once, whether or not the call has completed
DoneAlways(u) == TRUE

\* future.result() blocks until the call has returned or raised
Done(u) == result[u] # "pending"

\* a request of the work unit raised (requests.get or raise_for_status)
HasError(u) == \E k \in 1..Len(replies[u]) : replies[u][k] = "error"

\* a request is sent without waiting for the previous one
CanIssueEarly(u) == Len(issued[u]) < Len(RequestPlan)

\* the next request may be sent: the previous call has returned
CanIssue(u) == InFlight(u) = {} /\ Len(issued[u]) < Len(RequestPlan)

\* the fetch command goes on after a request raised
OnRequestErrorGoOn == "fetch"

\* the fetch command after a request raised: both except clauses print and return
OnRequestError == "caught"

\* the fetch command always ends with status 0
ExitStatusZero(p) == 0

\* what os.system returns for a fetch command that ended at the given place: an
\* exception raised outside the try of main() ends the command with status 1
ExitStatus(p) == IF p \in {"crashed", "config_error"} THEN 256 ELSE 0

\* fetch_company_data: result == 0
ResultOf(status) == IF status = 0 THEN "True" ELSE "False"

\* the result loop of main() without the except clause's failure += 1
TallyNoExcept(res, s, f) ==
    IF res = "True" THEN <<s + 1, f>> ELSE IF res = "False" THEN <<s, f + 1>> ELSE <<s, f>>

\* the result loop of main() counting every future that returned as a success
TallyReturned(res, s, f) == IF res = "raised" THEN <<s, f + 1>> ELSE <<s + 1, f>>

\* the result loop of main(): the counters after one future
Tally(res, s, f) == IF res = "True" THEN <<s + 1, f>> ELSE <<s, f + 1>>

\* the result loop of main() without its try: an exception of a future ends main()
AfterResultUncaught(res) == IF res = "raised" THEN "aborted" ELSE "collect"

\* the result loop of main(), lines 218-225: whatever the future holds, the loop goes on
AfterResult(res) == "collect"

\* the result loop of main() logging its progress after every fifth result
LogsProgressEveryFive(total) == total % 5 = 0

\* main(), lines 227-229: if total % 10 == 0, the progress line is logged
LogsProgress(total) == total % 10 = 0

\* main(), lines 175-204: the configuration is present; scan the output
\* directory, load, distribute
MainPrepare ==
    /\ command = "fetch_all_companies_data"
    /\ env_file /\ ~KeyMissing
    /\ phase \in {"idle", "reported"}
    /\ run < MaxRuns
    /\ \E w \in 1..MaxWorkers, order \in GlobOrders(assets) :
          LET done == get_processed_companies(files)
              all == load_companies(assets, Absent, order)
          IN \E lists \in distribute_companies(all, done, w) :
                LET n == Len(SubmitOrder(lists))
                IN /\ workers' = w
                   /\ processed' = done
                   /\ companies' = all
                   /\ companies_to_process' = lists
                   /\ cur' = [t \in 1..w |-> 0]
                   /\ started' = [u \in 1..n |-> 0]
                   /\ pc' = [u \in 1..n |-> "queued"]
                   /\ issued' = [u \in 1..n |-> <<>>]
                   /\ replies' = [u \in 1..n |-> <<>>]
                   /\ output_file' = [u \in 1..n |-> NoFile]
                   /\ result' = [u \in 1..n |-> "pending"]
                   /\ resolved' = [u \in 1..n |-> NotFound]
    /\ run' = run + 1
    /\ phase' = "submit"
    /\ futures' = <<>>
    /\ taken' = 0
    /\ collected' = 0
    /\ success' = 0
    /\ failure' = 0
    /\ progress' = <<>>
    /\ UNCHANGED <<assets, files, now, args_symbol,
                   command, env_file, api_key, call, stock_list>>

\* main(), lines 209-212: executor.submit of the next company
Submit ==
    /\ phase = "submit"
    /\ Len(futures) < Len(SubmitOrder(companies_to_process))
    /\ futures' = Append(futures, SubmitOrder(companies_to_process)[Len(futures) + 1])
    /\ UNCHANGED <<assets, files, now, run, phase, workers, processed, companies,
                   companies_to_process, taken, cur, started, pc, issued, replies,
                   output_file, result, collected, success, failure, resolved,
                   args_symbol,
                   command, env_file, api_key, call,
                   progress, stock_list>>

\* main(), lines 215-216: every company is submitted, the result loop begins
SubmitDone ==
    /\ phase = "submit"
    /\ Len(futures) = Len(SubmitOrder(companies_to_process))
    /\ phase' = "collect"
    /\ success' = 0
    /\ failure' = 0
    /\ UNCHANGED <<assets, files, now, run, workers, processed, companies,
                   companies_to_process, futures, taken, cur, started, pc, issued,
                   replies, output_file, result, collected, resolved, args_symbol,
                   command, env_file, api_key, call,
                   progress, stock_list>>

\* a pool thread that takes work items while it is executing one
IsIdleAlways(t) == TRUE

\* a pool thread of the ThreadPoolExecutor waits on the work queue only between
\* work items
IsIdle(t) == cur[t] = 0

\* a pool thread takes the next work item and enters fetch_company_data
\* (lines 151-160): company['name'] raises KeyError for a record without a name,
\* otherwise os.system starts the fetch command. The threads of the pool are
\* interchangeable: of the idle ones the lowest-numbered takes the item.
WorkerTake(t) ==
    /\ phase \in {"submit", "collect"}
    /\ IsIdle(t)
    /\ \A s \in 1..(t - 1) : ~IsIdle(s)
    /\ taken < Len(futures)
    /\ LET u == taken + 1
       IN /\ taken' = u
          /\ started' = [started EXCEPT ![u] = @ + 1]
          /\ IF futures[u].name = Absent
             THEN /\ pc' = [pc EXCEPT ![u] = "raised"]
                  /\ result' = [result EXCEPT ![u] = "raised"]
                  /\ cur' = cur
             ELSE /\ pc' = [pc EXCEPT ![u] = "resolve"]
                  /\ result' = result
                  /\ cur' = [cur EXCEPT ![t] = u]
    /\ UNCHANGED <<assets, files, now, run, phase, workers, processed, companies,
                   companies_to_process, futures, issued, replies, output_file,
                   collected, success, failure, resolved, args_symbol,
                   command, env_file, api_key, call,
                   progress, stock_list>>

\* the fetch command, line 214: find_company_by_symbol; its ValueError is raised
\* outside the try and ends the command with a non-zero status
Resolve(u) ==
    /\ pc[u] = "resolve"
    /\ \E order \in GlobOrders(assets) :
          LET r == find_company_by_symbol(assets, SymbolOf(u), order)
          IN /\ resolved' = [resolved EXCEPT ![u] = r]
             /\ pc' = [pc EXCEPT ![u] = IF r.found THEN "fetch" ELSE "crashed"]
    /\ UNCHANGED <<assets, files, now, run, phase, workers, processed, companies,
                   companies_to_process, futures, taken, cur, started, issued,
                   replies, output_file, result, collected, success, failure,
                   args_symbol,
                   command, env_file, api_key, call,
                   progress, stock_list>>

\* _make_request: requests.get is called for the next request of the plan
Issue(u) ==
    /\ pc[u] = "fetch"
    /\ CanIssue(u)
    /\ LET k == Len(issued[u]) + 1
       IN /\ issued' = [issued EXCEPT ![u] = Append(@, RequestPlan[k])]
          /\ replies' = [replies EXCEPT ![u] = Append(@, "pending")]
    /\ UNCHANGED <<assets, files, now, run, phase, workers, processed, companies,
                   companies_to_process, futures, taken, cur, started, pc,
                   output_file, result, collected, success, failure, resolved,
                   args_symbol,
                   command, env_file, api_key, call,
                   progress, stock_list>>

\* _make_request: the response arrives with a success status and is parsed
Return(u) ==
    /\ pc[u] = "fetch"
    /\ \E k \in InFlight(u) :
          /\ replies[u][k] = "pending"
          /\ replies' = [replies EXCEPT ![u][k] = "ok"]
    /\ UNCHANGED <<assets, files, now, run, phase, workers, processed, companies,
                   companies_to_process, futures, taken, cur, started, pc, issued,
                   output_file, result, collected, success, failure, resolved,
                   args_symbol,
                   command, env_file, api_key, call,
                   progress, stock_list>>

\* _make_request: requests.get or raise_for_status raises; main() of the fetch
\* command catches it (lines 250-253)
Fail(u) ==
    /\ pc[u] = "fetch"
    /\ \E k \in InFlight(u) :
          /\ replies[u][k] = "pending"
          /\ replies' = [replies EXCEPT ![u][k] = "error"]
    /\ pc' = [pc EXCEPT ![u] = OnRequestError]
    /\ UNCHANGED <<assets, files, now, run, phase, workers, processed, companies,
                   companies_to_process, futures, taken, cur, started, issued,
                   output_file, result, collected, success, failure, resolved,
                   args_symbol,
                   command, env_file, api_key, call,
                   progress, stock_list>>

\* the fetch command, lines 231-247: every request returned, the bundle is written
\* under the name the clock gives. The clock is read nowhere else: datetime.now()
\* returns the second of the previous reading or a later one.
Save(u) ==
    /\ pc[u] = "fetch"
    /\ InFlight(u) = {}
    /\ Len(issued[u]) = Len(RequestPlan)
    /\ \E t \in now..MaxClock :
          LET name == OutputFileName(SymbolOf(u), t)
              bundle == Bundle(u)
          IN /\ now' = t
             /\ files' = [f \in DOMAIN files \cup {name} |->
                             IF f = name THEN bundle ELSE files[f]]
             /\ output_file' = [output_file EXCEPT ![u] = name]
    /\ pc' = [pc EXCEPT ![u] = "saved"]
    /\ UNCHANGED <<assets, run, phase, workers, processed, companies,
                   companies_to_process, futures, taken, cur, started, issued,
                   replies, result, collected, success, failure, resolved,
                   args_symbol,
                   command, env_file, api_key, call,
                   progress, stock_list>>

\* fetch_company_data, lines 160-167: os.system has returned
WorkerFinish(t) ==
    /\ cur[t] # 0
    /\ pc[cur[t]] \in {"saved", "caught", "crashed"}
    /\ result' = [result EXCEPT ![cur[t]] = ResultOf(ExitStatus(pc[cur[t]]))]
    /\ cur' = [cur EXCEPT ![t] = 0]
    /\ UNCHANGED <<assets, files, now, run, phase, workers, processed, companies,
                   companies_to_process, futures, taken, started, pc, issued,
                   replies, output_file, collected, success, failure, resolved,
                   args_symbol,
                   command, env_file, api_key, call,
                   progress, stock_list>>

\* main(), lines 217-225: future.result() of the next future, in submission order
Collect ==
    /\ phase = "collect"
    /\ collected < Len(futures)
    /\ Done(collected + 1)
    /\ collected' = collected + 1
    /\ success' = Tally(result[collected + 1], success, failure)[1]
    /\ failure' = Tally(result[collected + 1], success, failure)[2]
    /\ phase' = AfterResult(result[collected + 1])
    /\ progress' = IF LogsProgress(success' + failure')
                      THEN Append(progress, success' + failure')
                      ELSE progress
    /\ UNCHANGED <<assets, files, now, run, workers, processed, companies,
                   companies_to_process, futures, taken, cur, started, pc, issued,
                   replies, output_file, result, resolved, args_symbol,
                   command, env_file, api_key, call, stock_list>>

\* main(), lines 233-236: the final counts are logged
Report ==
    /\ phase = "collect"
    /\ collected = Len(futures)
    /\ phase' = "reported"
    /\ UNCHANGED <<assets, files, now, run, workers, processed, companies,
                   companies_to_process, futures, taken, cur, started, pc, issued,
                   replies, output_file, result, collected, success, failure,
                   resolved, args_symbol,
                   command, env_file, api_key, call,
                   progress, stock_list>>

----------------------------------------------------------------------------
(* The reference directories of the model: what the listing utilities leave *)
(* in assets/ for an upstream list of a few stocks. Listing files that hold *)
(* an empty list add nothing to any load and are left out.                  *)

AAPL == [symbol |-> <<"A", "A", "P", "L">>, name |-> "Apple", country |-> Absent]

Samsung ==
    [symbol |-> <<"0", "0", "5", "9", "3", "0", ".", "K", "S">>,
     name |-> "Samsung", country |-> Absent]

\* a stock the upstream list gives no name
Nameless == [symbol |-> <<"X">>, name |-> Absent, country |-> Absent]

AssetChoices ==
    { \* get_companies_by_country.py alone
      [f \in {US_NASDAQ_file, KR_KSC_file} |->
          IF f = US_NASDAQ_file THEN <<AAPL>> ELSE <<Samsung>>],
      \* get_companies_by_country.py and get_us_companies.py
      [f \in {US_NASDAQ_file, us_file} |-> <<AAPL>>],
      \* get_us_companies.py for the US, get_companies_by_country.py for the rest
      [f \in {us_file, KR_KSC_file} |->
          IF f = us_file THEN <<AAPL>> ELSE <<Samsung>>],
      \* a listed stock without a name
      [f \in {US_NASDAQ_file} |-> <<AAPL, Nameless>>] }

Init ==
    /\ assets \in AssetChoices
    /\ files = EmptyDir
    /\ now = 0
    /\ run = 0
    /\ phase = "idle"
    /\ workers = 0
    /\ processed = {}
    /\ companies = <<>>
    /\ companies_to_process = <<>>
    /\ futures = <<>>
    /\ taken = 0
    /\ cur = <<>>
    /\ started = <<>>
    /\ pc = <<>>
    /\ issued = <<>>
    /\ replies = <<>>
    /\ output_file = <<>>
    /\ result = <<>>
    /\ collected = 0
    /\ success = 0
    /\ failure = 0
    /\ resolved = <<>>
    /\ args_symbol = <<>>
    /\ command = "fetch_all_companies_data"
    /\ env_file = TRUE
    /\ api_key = "key"
    /\ call = Absent
    /\ progress = <<>>
    /\ stock_list = <<>>

Next ==
    \/ MainPrepare
    \/ Submit
    \/ SubmitDone
    \/ \E t \in DOMAIN cur : WorkerTake(t)
    \/ \E u \in Units : Resolve(u)
    \/ \E u \in Units : Issue(u)
    \/ \E u \in Units : Return(u)
    \/ \E u \in Units : Fail(u)
    \/ \E u \in Units : Save(u)
    \/ \E t \in DOMAIN cur : WorkerFinish(t)
    \/ Collect
    \/ Report

Spec == Init /\ [][Next]_vars

----------------------------------------------------------------------------
(* distribute_companies on its own: any list of companies, any processed  *)
(* set, any number of workers.                                             *)

DistSymbols == {<<"A">>, <<"B">>}

DistRecords ==
    {[symbol |-> sy, name |-> "n", country |-> co] :
        sy \in DistSymbols, co \in {"KR", Absent}}

ListsUpTo(S, n) == UNION {[1..k -> S] : k \in 0..n}

BatchIdle ==
    /\ assets = EmptyDir
    /\ run = 0
    /\ futures = <<>>
    /\ taken = 0
    /\ cur = <<>>
    /\ started = <<>>
    /\ pc = <<>>
    /\ issued = <<>>
    /\ replies = <<>>
    /\ output_file = <<>>
    /\ result = <<>>
    /\ collected = 0
    /\ success = 0
    /\ failure = 0
    /\ resolved = <<>>
    /\ env_file = TRUE
    /\ api_key = "key"
    /\ call = Absent
    /\ progress = <<>>
    /\ stock_list = <<>>

InitDist ==
    /\ BatchIdle
    /\ files = EmptyDir
    /\ now = 0
    /\ phase = "idle"
    /\ companies \in ListsUpTo(DistRecords, MaxCompanies)
    /\ processed \in SUBSET DistSymbols
    /\ workers \in 1..MaxWorkers
    /\ companies_to_process = <<>>
    /\ args_symbol = <<>>
    /\ command = "fetch_all_companies_data"

\* companies_to_process = distribute_companies(companies, processed, args.workers)
Distribute ==
    /\ phase = "idle"
    /\ companies_to_process' \in distribute_companies(companies, processed, workers)
    /\ phase' = "distributed"
    /\ UNCHANGED <<assets, files, now, run, workers, processed, companies, futures,
                   taken, cur, started, pc, issued, replies, output_file, result,
                   collected, success, failure, resolved, args_symbol,
                   command, env_file, api_key, call,
                   progress, stock_list>>

NextDist == Distribute

SpecDist == InitDist /\ [][NextDist]_vars

\* occurrences of x in a list
Count(list, x) == Cardinality({i \in 1..Len(list) : list[i] = x})

----------------------------------------------------------------------------
(* The save step of the fetch command followed by a scan of the output     *)
(* directory, for any symbol.                                              *)

SymChars == {"A", "7", ".", "_"}

ScanSymbols == UNION {[1..k -> SymChars] : k \in 1..MaxSymLen}

InitScan ==
    /\ BatchIdle
    /\ files = EmptyDir
    /\ now = 0
    /\ phase = "idle"
    /\ companies = <<>>
    /\ processed = {}
    /\ workers = 0
    /\ companies_to_process = <<>>
    /\ args_symbol \in ScanSymbols
    /\ command = "fetch_financial_data"

\* the fetch command, lines 231-247, for --symbol args_symbol
SaveAlone ==
    /\ phase = "idle"
    /\ \E t \in now..MaxClock :
          /\ now' = t
          /\ files' = [f \in DOMAIN files \cup {OutputFileName(args_symbol, t)} |->
                          [company_info |-> Absent, country |-> Absent]]
    /\ phase' = "saved"
    /\ UNCHANGED <<assets, run, workers, processed, companies, companies_to_process,
                   futures, taken, cur, started, pc, issued, replies, output_file,
                   result, collected, success, failure, resolved, args_symbol,
                   command, env_file, api_key, call,
                   progress, stock_list>>

\* the batch command, line 193: processed = get_processed_companies()
Scan ==
    /\ phase = "saved"
    /\ processed' = get_processed_companies(files)
    /\ phase' = "scanned"
    /\ UNCHANGED <<assets, files, now, run, workers, companies, companies_to_process,
                   futures, taken, cur, started, pc, issued, replies, output_file,
                   result, collected, success, failure, resolved, args_symbol,
                   command, env_file, api_key, call,
                   progress, stock_list>>

NextScan == SaveAlone \/ Scan

SpecScan == InitScan /\ [][NextScan]_vars

\* C5: after the fetch of a symbol has written its output file, the scan of the
\* output directory returns a set that contains exactly that symbol.
C5_ScanRoundTrip == phase = "scanned" => processed = {args_symbol}

----------------------------------------------------------------------------
(* The batch run: counting. *)

\* the entries of the loaded list whose symbol the scan did not find
UnprocessedEntries == {i \in 1..Len(companies) : companies[i].symbol \notin processed}

\* the records the reference directories of the model hold
ListedRecords == {AAPL, Samsung, Nameless}

\* a step of the batch run in progress
RunStep ==
    \/ Submit
    \/ SubmitDone
    \/ \E t \in DOMAIN cur : WorkerTake(t)
    \/ \E u \in Units : Resolve(u) \/ Issue(u) \/ Return(u) \/ Fail(u) \/ Save(u)
    \/ \E t \in DOMAIN cur : WorkerFinish(t)
    \/ Collect
    \/ Report

C3_UpstreamErrorCountedAsFailure ==
    phase = "reported" =>
        /\ failure >= Cardinality({u \in Units : HasError(u)})
        /\ success <= Cardinality({u \in Units : ~HasError(u)})

\* C4: after a batch run, every symbol counted as a failure has no output file
\* of that run and is not in the set the next run's scan returns (so it is
\* attempted again), and every symbol counted as a success has an output file
\* and is in that set (so it is skipped).
C4_CountsAgreeWithOutputFiles ==
    phase = "reported" =>
        \A u \in Units :
            IF result[u] = "True"
            THEN /\ output_file[u] \in DOMAIN files
                 /\ futures[u].symbol \in get_processed_companies(files)
            ELSE /\ output_file[u] = NoFile
                 /\ futures[u].symbol \notin get_processed_companies(files)

\* C6: a failed fetch (a non-zero exit of the fetch command, or an exception
\* raised in the work unit) never stops the run: main() is never left before the
\* report, the run can always take a further step until it has reported, and at
\* the report every submitted work unit has been executed and collected.
C6_FailureNeverStopsRun ==
    /\ phase \in {"idle", "submit", "collect", "reported"}
    /\ phase \in {"submit", "collect"} => ENABLED RunStep
    /\ phase = "reported" =>
          /\ Len(futures) = Len(pc)
          /\ collected = Len(futures)
          /\ \A u \in Units :
                /\ pc[u] \in {"saved", "caught", "crashed", "raised"}
                /\ result[u] # "pending"

C6_Witness ==
    /\ phase = "reported"
    /\ \E u, v \in Units :
          /\ u < v
          /\ result[u] \in {"raised", "False"}
          /\ pc[v] = "saved"
    /\ failure = 1
    /\ success = 1

----------------------------------------------------------------------------
(* One symbol's fetch: its requests. *)

\* the part of the fetch a request belongs to
PartOf(req) ==
    IF req.period = "annual" THEN "annual"
    ELSE IF req.period = "quarter" THEN "quarter"
    ELSE IF req.endpoint \in {"income-statement-ltm", "balance-sheet-statement-ltm",
                              "cash-flow-statement-ltm"} THEN "LTM"
    ELSE IF req.endpoint \in {"ratios-ttm", "key-metrics-ttm"} THEN "TTM"
    ELSE "other"

CountPart(u, part) == Cardinality({k \in 1..Len(issued[u]) : PartOf(issued[u][k]) = part})

\* C7 as stated: a successful fetch issues exactly eleven HTTP requests.
C7_ElevenRequests ==
    \A u \in Units : pc[u] = "saved" => Len(issued[u]) = 11

\* C7 as amended: a successful fetch issues exactly fifteen HTTP requests: five
\* annual-period requests, five quarterly-period requests, three for the LTM
\* composite and two for the TTM composite.
C7_FifteenRequests ==
    \A u \in Units :
        pc[u] = "saved" =>
            /\ Len(issued[u]) = 15
            /\ CountPart(u, "annual") = 5
            /\ CountPart(u, "quarter") = 5
            /\ CountPart(u, "LTM") = 3
            /\ CountPart(u, "TTM") = 2

C7_Witness ==
    \E u \in Units : pc[u] = "saved" /\ output_file[u] \in DOMAIN files /\ Len(issued[u]) = 15

\* the order the claim C8 gives: the five statements for annual, the same five
\* for quarter, then LTM, then TTM
C8_Statements ==
    <<"income-statement", "balance-sheet-statement", "cash-flow-statement", "ratios",
      "key-metrics">>

C8_Order ==
    [k \in 1..5 |-> <<"annual", C8_Statements[k]>>]
        \o [k \in 1..5 |-> <<"quarter", C8_Statements[k]>>]
        \o <<"LTM", "LTM", "LTM", "TTM", "TTM">>

C8_Place(req) ==
    IF PartOf(req) \in {"annual", "quarter"} THEN <<PartOf(req), req.endpoint>>
    ELSE PartOf(req)

\* C8: within one symbol's fetch the requests are issued in the fixed order
\* (annual: income statement, balance sheet, cash flow, ratios, key metrics; the
\* same five for quarter; LTM; TTM), each only after the previous one has
\* returned: at most one request is in flight, and it is the last one issued.
C8_SequentialFixedOrder ==
    \A u \in Units :
        /\ Len(issued[u]) <= Len(C8_Order)
        /\ \A k \in 1..Len(issued[u]) : C8_Place(issued[u][k]) = C8_Order[k]
        /\ Cardinality(InFlight(u)) <= 1
        /\ InFlight(u) \subseteq {Len(issued[u])}

C8_Witness ==
    \E u, v \in Units :
        /\ u # v
        /\ Len(issued[u]) = 15 /\ InFlight(u) = {15}
        /\ Len(issued[v]) = 11 /\ InFlight(v) = {11}

\* C9: if the k-th request of a symbol's fetch fails with an UpstreamError, the
\* fetch stops there: the failed request is the last one it issued, it writes
\* no output file, and the step in which the request fails leaves the output
\* directory as it was.
C9_ErrorStopsFetch ==
    /\ [](\A u \in Units :
            HasError(u) =>
                /\ replies[u][Len(issued[u])] = "error"
                /\ \A k \in 1..(Len(issued[u]) - 1) : replies[u][k] = "ok"
                /\ output_file[u] = NoFile)
    /\ [][\A u \in Units :
            (run' = run /\ HasError(u))
                => (issued'[u] = issued[u] /\ output_file'[u] = NoFile)]_vars
    /\ [][(run' = run /\ \E u \in Units : ~HasError(u) /\ HasError(u)')
                => files' = files]_vars

C9_Witness ==
    \E u, v \in Units :
        /\ HasError(u)
        /\ Len(issued[u]) = 7
        /\ pc[u] = "caught"
        /\ result[u] # "pending"
        /\ pc[v] = "saved"
        /\ files # EmptyDir

\* C10: two successful fetches of the same symbol always leave two distinct
\* output files (no fetch writes over the file of another).
C10_DistinctOutputFiles ==
    \A u, v \in Units :
        (u # v /\ pc[u] = "saved" /\ pc[v] = "saved")
            => output_file[u] # output_file[v]

\* C11: during a batch run no two work units ever write to the same output file
\* path, whatever the interleaving of the worker threads: the step in which a
\* work unit writes its file never writes to the path another unit of the run
\* has written to.
C11_NoTwoUnitsWriteSamePath ==
    [][\A u \in Units :
          (run' = run /\ output_file'[u] # output_file[u])
              => \A v \in Units \ {u} : output_file[v] # output_file'[u]]_vars

----------------------------------------------------------------------------
(* find_company_by_symbol on its own: any symbol, over reference            *)
(* directories in which each file lists one stock. The name of a record     *)
(* tells the listings of one symbol apart.                                  *)

JP_JPX_file == <<"J", "P", "_", "J", "P", "X">> \o Companies_json

FindFiles == {US_NASDAQ_file, KR_KSC_file, JP_JPX_file}

FindSymbols ==
    { <<"A">>, <<"1", ".", "K", "S">>, <<"2", ".", "K", "Q">>, <<"3", ".", "T">>,
      <<"4", ".", "S", "S">>, <<"5", ".", "S", "Z">>, <<"6", ".", "H", "K">> }

\* the exchange a reference file is named after
ExchangeOf(f) == Split(PathStem(f), "_")[2]

FindDirs ==
    UNION {{[f \in F |-> <<[symbol |-> pick[f], name |-> ExchangeOf(f),
                            country |-> Absent]>>] : pick \in [F -> FindSymbols]} :
              F \in SUBSET FindFiles}

InitFind ==
    /\ assets \in FindDirs
    /\ args_symbol \in FindSymbols
    /\ command = "find_company_by_symbol"
    /\ phase = "idle"
    /\ files = EmptyDir
    /\ now = 0
    /\ run = 0
    /\ workers = 0
    /\ processed = {}
    /\ companies = <<>>
    /\ companies_to_process = <<>>
    /\ futures = <<>>
    /\ taken = 0
    /\ cur = <<>>
    /\ started = <<>>
    /\ pc = <<>>
    /\ issued = <<>>
    /\ replies = <<>>
    /\ output_file = <<>>
    /\ result = <<>>
    /\ collected = 0
    /\ success = 0
    /\ failure = 0
    /\ resolved = <<>>
    /\ env_file = TRUE
    /\ api_key = "key"
    /\ call = Absent
    /\ progress = <<>>
    /\ stock_list = <<>>

\* company, country = find_company_by_symbol(args_symbol)
Find ==
    /\ phase = "idle"
    /\ \E order \in GlobOrders(assets) :
          resolved' = <<find_company_by_symbol(assets, args_symbol, order)>>
    /\ phase' = "resolved"
    /\ UNCHANGED <<assets, files, now, run, workers, processed, companies,
                   companies_to_process, futures, taken, cur, started, pc, issued,
                   replies, output_file, result, collected, success, failure,
                   args_symbol, command, env_file, api_key, call,
                   progress, stock_list>>

NextFind == Find

SpecFind == InitFind /\ [][NextFind]_vars

\* the suffix table as the claim C12 gives it
C12_Table ==
    { <<<<".", "K", "S">>, "KR">>, <<<<".", "K", "Q">>, "KR">>, <<<<".", "T">>, "JP">>,
      <<<<".", "S", "S">>, "CN">>, <<<<".", "S", "Z">>, "CN">>,
      <<<<".", "H", "K">>, "HK">> }

\* C12: whenever find_company_by_symbol returns for a symbol that ends with a
\* recognized suffix, the returned country code is the one the suffix table
\* assigns to that suffix.
C12_CountryFollowsSuffix ==
    (phase = "resolved" /\ resolved[1].found) =>
        \A e \in C12_Table :
            EndsWith(args_symbol, e[1]) => resolved[1].country = e[2]

\* the country a reference file belongs to: the first piece of its name
C13_CountryOfFile(f) ==
    LET piece == Split(PathStem(f), "_")[1] IN piece[1] \o piece[2]

\* the countries whose reference files list the symbol
C13_CountriesListing ==
    {C13_CountryOfFile(f) :
        f \in {g \in DOMAIN assets :
                  \E i \in 1..Len(assets[g]) : assets[g][i].symbol = args_symbol}}

\* C13: for a symbol present in exactly one country's reference set
\* find_company_by_symbol returns that record and that country; for a symbol
\* present in no reference set it fails with the not-found error.
C13_FoundWhereListed ==
    phase = "resolved" =>
        /\ \A c \in C13_CountriesListing :
              C13_CountriesListing = {c} =>
                  /\ resolved[1].found
                  /\ resolved[1].country = c
                  /\ \E f \in DOMAIN assets :
                        /\ C13_CountryOfFile(f) = c
                        /\ \E i \in 1..Len(assets[f]) :
                              assets[f][i] = resolved[1].company
                  /\ resolved[1].company.symbol = args_symbol
        /\ C13_CountriesListing = {} => ~resolved[1].found

----------------------------------------------------------------------------
(* The commands on their own: the single-symbol fetch command, the batch    *)
(* command and the listing utilities, started with or without their        *)
(* configuration. A command other than the batch command is one process,    *)
(* work unit 1.                                                             *)

ListingCommands == {"get_us_companies", "get_companies_by_country", "get_countries"}

Commands == {"fetch_financial_data", "fetch_all_companies_data"} \cup ListingCommands

\* get_us_companies.py: US_EXCHANGES
US_EXCHANGES == {<<"N", "Y", "S", "E">>, <<"N", "A", "S", "D", "A", "Q">>,
                 <<"A", "M", "E", "X">>}

\* get_companies_by_country.py: COUNTRY_EXCHANGES, in the dict's order
COUNTRY_EXCHANGES ==
    << [country |-> <<"U", "S">>,
        exchanges |-> << <<"N", "Y", "S", "E">>, <<"N", "A", "S", "D", "A", "Q">>,
                         <<"A", "M", "E", "X">> >>],
       [country |-> <<"C", "N">>,
        exchanges |-> << <<"S", "H", "H">>, <<"S", "H", "Z">> >>],
       [country |-> <<"J", "P">>, exchanges |-> << <<"J", "P", "X">> >>],
       [country |-> <<"K", "R">>,
        exchanges |-> << <<"K", "S", "C">>, <<"K", "O", "E">> >>] >>

\* items of the upstream stock list
StockItem(symbol, name, exchange, type) ==
    [symbol |-> symbol, name |-> name, country |-> Absent,
     exchangeShortName |-> exchange, type |-> type]

UpstreamStocks ==
    { StockItem(AAPL.symbol, "Apple", <<"N", "A", "S", "D", "A", "Q">>, "stock"),
      StockItem(Samsung.symbol, "Samsung", <<"K", "S", "C">>, "stock"),
      StockItem(<<"S", "P", "Y">>, "SPDR", <<"A", "M", "E", "X">>, "etf"),
      StockItem(<<"6", ".", "H", "K">>, "Tencent", <<"H", "K", "S", "E">>, "stock") }

\* what response.json() of stock/list may hold: the upstream lists a symbol once
StockLists ==
    {l \in UNION {[1..k -> UpstreamStocks] : k \in 0..2} :
        \A i, j \in 1..Len(l) : i # j => l[i].symbol # l[j].symbol}

\* get_us_companies(): the stocks of the US exchanges
get_us_companies(all_stocks) ==
    SelectSeq(all_stocks,
              LAMBDA stock : stock.exchangeShortName \in US_EXCHANGES
                             /\ stock.type = "stock")

\* filter_companies_by_country, for one exchange of the country
filter_companies_by_country(stocks, exchange) ==
    SelectSeq(stocks,
              LAMBDA stock : stock.exchangeShortName = exchange /\ stock.type = "stock")

\* the (country, exchange) pairs get_companies_by_country.py writes a file for
ListedPairs ==
    UNION {{<<COUNTRY_EXCHANGES[i].country, COUNTRY_EXCHANGES[i].exchanges[j]>> :
               j \in 1..Len(COUNTRY_EXCHANGES[i].exchanges)} :
              i \in 1..Len(COUNTRY_EXCHANGES)}

\* filename = f'{country_code}_{exchange}_companies.json'
ListingFileName(country_code, exchange) ==
    country_code \o <<"_">> \o exchange \o Companies_json

\* main() of get_companies_by_country.py after the stock list has arrived: assets/
\* as the loops over the countries and their exchanges leave it
SaveByCountry(stocks, dir) ==
    IF stocks = <<>> THEN dir
    ELSE LET written == {ListingFileName(p[1], p[2]) : p \in ListedPairs}
         IN [f \in DOMAIN dir \cup written |->
                IF f \in written
                THEN LET p == CHOOSE q \in ListedPairs : ListingFileName(q[1], q[2]) = f
                     IN filter_companies_by_country(stocks, p[2])
                ELSE dir[f]]

\* main() of get_us_companies.py after the stock list has arrived
SaveUs(all_stocks, dir) ==
    LET us_companies == get_us_companies(all_stocks)
    IN IF us_companies = <<>> THEN dir
       ELSE [f \in DOMAIN dir \cup {us_file} |->
                IF f = us_file THEN us_companies ELSE dir[f]]

\* the endpoint a listing utility requests
ListingEndpoint(c) == IF c = "get_countries" THEN "get-all-countries" ELSE "stock/list"

\* the utility checks the API key before its request
ChecksKeyAll(c) == TRUE

\* only get_countries.py checks the API key (get_all_countries, lines 17-19); the
\* other utilities read it at import and format it into the URL
ChecksKey(c) == c = "get_countries"

\* the batch command, lines 175-186: .env or FMP_API_KEY is missing, main() raises
MainConfigError ==
    /\ command = "fetch_all_companies_data"
    /\ phase = "idle"
    /\ ~env_file \/ KeyMissing
    /\ phase' = "config_error"
    /\ UNCHANGED <<assets, files, now, run, workers, processed, companies,
                   companies_to_process, futures, taken, cur, started, pc, issued,
                   replies, output_file, result, collected, success, failure,
                   resolved, args_symbol, command, env_file, api_key, call,
                   progress, stock_list>>

\* the fetch command, lines 193-211: .env and FMP_API_KEY are checked
Configure(u) ==
    /\ command = "fetch_financial_data"
    /\ pc[u] = "start"
    /\ pc' = [pc EXCEPT ![u] = IF env_file /\ ~KeyMissing THEN "resolve"
                                ELSE "config_error"]
    /\ UNCHANGED <<assets, files, now, run, phase, workers, processed, companies,
                   companies_to_process, futures, taken, cur, started, issued,
                   replies, output_file, result, collected, success, failure,
                   resolved, args_symbol, command, env_file, api_key, call,
                   progress, stock_list>>

\* a listing utility up to its requests.get
ListRequest(u) ==
    /\ command \in ListingCommands
    /\ pc[u] = "start"
    /\ IF ChecksKey(command) /\ KeyMissing
       THEN /\ pc' = [pc EXCEPT ![u] = "config_error"]
            /\ UNCHANGED <<issued, replies>>
       ELSE /\ pc' = [pc EXCEPT ![u] = "listing"]
            /\ issued' = [issued EXCEPT ![u] = <<Plain(ListingEndpoint(command))>>]
            /\ replies' = [replies EXCEPT ![u] = <<"pending">>]
    /\ UNCHANGED <<assets, files, now, run, phase, workers, processed, companies,
                   companies_to_process, futures, taken, cur, started,
                   output_file, result, collected, success, failure,
                   resolved, args_symbol, command, env_file, api_key, call,
                   progress, stock_list>>

\* a listing utility from the arrival of the response to the end of main()
ListSave(u) ==
    /\ pc[u] = "listing"
    /\ replies' = [replies EXCEPT ![u] = <<"ok">>]
    /\ \E all_stocks \in StockLists :
          /\ stock_list' = all_stocks
          /\ assets' = CASE command = "get_us_companies" -> SaveUs(all_stocks, assets)
                        [] command = "get_companies_by_country" ->
                              SaveByCountry(all_stocks, assets)
                        [] OTHER -> assets
    /\ pc' = [pc EXCEPT ![u] = "listed"]
    /\ UNCHANGED <<files, now, run, phase, workers, processed, companies,
                   companies_to_process, futures, taken, cur, started, issued,
                   output_file, result, collected, success, failure,
                   resolved, args_symbol, command, env_file, api_key, call,
                   progress>>

\* a listing utility whose request raised: it prints the error, takes the list
\* for empty and returns
ListFail(u) ==
    /\ pc[u] = "listing"
    /\ replies' = [replies EXCEPT ![u] = <<"error">>]
    /\ pc' = [pc EXCEPT ![u] = "list_error"]
    /\ UNCHANGED <<assets, files, now, run, phase, workers, processed, companies,
                   companies_to_process, futures, taken, cur, started, issued,
                   output_file, result, collected, success, failure,
                   resolved, args_symbol, command, env_file, api_key, call,
                   progress, stock_list>>

CommandDirs ==
    { [f \in {US_NASDAQ_file} |-> <<AAPL>>], [f \in {us_file} |-> <<AAPL>>],
      [f \in {KR_KSC_file} |-> <<Samsung>>] }

InitCommand ==
    /\ command \in Commands
    /\ env_file \in BOOLEAN
    /\ api_key \in {Absent, "", "key"}
    /\ assets \in CommandDirs
    /\ args_symbol \in IF command = "fetch_financial_data"
                        THEN {AAPL.symbol, Samsung.symbol, <<"Z">>} ELSE {<<>>}
    /\ phase = IF command = "fetch_all_companies_data" THEN "idle" ELSE "alone"
    /\ pc = IF command = "fetch_all_companies_data" THEN <<>> ELSE <<"start">>
    /\ issued = [u \in DOMAIN pc |-> <<>>]
    /\ replies = [u \in DOMAIN pc |-> <<>>]
    /\ output_file = [u \in DOMAIN pc |-> NoFile]
    /\ result = [u \in DOMAIN pc |-> "pending"]
    /\ resolved = [u \in DOMAIN pc |-> NotFound]
    /\ started = [u \in DOMAIN pc |-> 1]
    /\ files = EmptyDir
    /\ now = 0
    /\ run = 0
    /\ workers = 0
    /\ processed = {}
    /\ companies = <<>>
    /\ companies_to_process = <<>>
    /\ futures = <<>>
    /\ taken = 0
    /\ cur = <<>>
    /\ collected = 0
    /\ success = 0
    /\ failure = 0
    /\ call = Absent
    /\ progress = <<>>
    /\ stock_list = <<>>

NextCommand ==
    \/ Next
    \/ MainConfigError
    \/ \E u \in Units : Configure(u)
    \/ \E u \in Units : ListRequest(u)
    \/ \E u \in Units : ListSave(u)
    \/ \E u \in Units : ListFail(u)

SpecCommand == InitCommand /\ [][NextCommand]_vars

\* C14: a symbol that cannot be resolved makes the fetch command terminate with
\* a non-zero exit status before any HTTP request is issued and without writing
\* an output file, and in a batch run that symbol's work unit returns false and
\* is counted as a failure.
C14_UnresolvedSymbolFails ==
    \A u \in Units :
        (pc[u] \in {"fetch", "caught", "saved", "crashed"} /\ ~resolved[u].found) =>
            /\ pc[u] = "crashed"
            /\ ExitStatus(pc[u]) # 0
            /\ issued[u] = <<>>
            /\ output_file[u] = NoFile
            /\ \A t \in 0..MaxClock : OutputFileName(SymbolOf(u), t) \notin DOMAIN files
            /\ result[u] \in {"pending", "False"}
            /\ (u <= collected) => (failure >= 1 /\ success < collected)

\* a batch run has counted an unresolvable symbol (listed only in
\* us_companies.json, which load_companies('US') does not read) as a failure
C14_Witness ==
    /\ command = "fetch_all_companies_data"
    /\ phase = "reported"
    /\ \E u \in Units :
          /\ pc[u] = "crashed"
          /\ ~resolved[u].found
          /\ result[u] = "False"
          /\ u <= collected
    /\ failure = 1
    /\ success = 0

\* C15: in every command that calls the upstream API, when the API key is absent
\* from the environment the command aborts at startup and no HTTP request is
\* ever issued.
C15_NoRequestWithoutKey ==
    api_key = Absent =>
        /\ phase \in {"idle", "alone", "config_error"}
        /\ \A u \in Units : pc[u] \in {"start", "config_error"} /\ issued[u] = <<>>

----------------------------------------------------------------------------
(* The statement accessors on their own: any accessor, either period, no    *)
(* limit or any explicit limit.                                             *)

AccessorNames ==
    {"get_income_statement", "get_balance_sheet", "get_cash_flow",
     "get_financial_ratios", "get_key_metrics"}

Calls ==
    [accessor : AccessorNames, period : {"annual", "quarter"},
     limit : {NoLimit} \cup {<<n>> : n \in 0..MaxLimit}]

InitAccessor ==
    /\ call \in Calls
    /\ progress = <<>>
    /\ stock_list = <<>>
    /\ command = "FMPFinancialDataFetcher"
    /\ phase = "idle"
    /\ pc = <<"start">>
    /\ issued = <<<<>>>>
    /\ replies = <<<<>>>>
    /\ output_file = <<NoFile>>
    /\ result = <<"pending">>
    /\ resolved = <<NotFound>>
    /\ started = <<1>>
    /\ assets = EmptyDir
    /\ files = EmptyDir
    /\ now = 0
    /\ run = 0
    /\ workers = 0
    /\ processed = {}
    /\ companies = <<>>
    /\ companies_to_process = <<>>
    /\ futures = <<>>
    /\ taken = 0
    /\ cur = <<>>
    /\ collected = 0
    /\ success = 0
    /\ failure = 0
    /\ args_symbol = AAPL.symbol
    /\ env_file = TRUE
    /\ api_key = "key"

\* fetcher.<accessor>(symbol, period, limit) up to its requests.get
CallAccessor ==
    /\ phase = "idle"
    /\ LET request ==
              CASE call.accessor = "get_income_statement" ->
                       get_income_statement(call.period, call.limit)
                [] call.accessor = "get_balance_sheet" ->
                       get_balance_sheet(call.period, call.limit)
                [] call.accessor = "get_cash_flow" ->
                       get_cash_flow(call.period, call.limit)
                [] call.accessor = "get_financial_ratios" ->
                       get_financial_ratios(call.period, call.limit)
                [] call.accessor = "get_key_metrics" ->
                       get_key_metrics(call.period, call.limit)
       IN /\ issued' = [issued EXCEPT ![1] = Append(@, request)]
          /\ replies' = [replies EXCEPT ![1] = Append(@, "pending")]
    /\ phase' = "sent"
    /\ UNCHANGED <<assets, files, now, run, workers, processed, companies,
                   companies_to_process, futures, taken, cur, started, pc,
                   output_file, result, collected, success, failure, resolved,
                   args_symbol, command, env_file, api_key, call,
                   progress, stock_list>>

NextAccessor == CallAccessor

SpecAccessor == InitAccessor /\ [][NextAccessor]_vars

\* the endpoint of each accessor
C16_Endpoint ==
    [a \in AccessorNames |->
        CASE a = "get_income_statement" -> "income-statement"
          [] a = "get_balance_sheet" -> "balance-sheet-statement"
          [] a = "get_cash_flow" -> "cash-flow-statement"
          [] a = "get_financial_ratios" -> "ratios"
          [] a = "get_key_metrics" -> "key-metrics"]

\* C16: for each of the five statement accessors, a call with no explicit limit
\* sends limit=5 when period is "annual" and limit=20 when period is "quarter";
\* a call with an explicit limit sends that limit unchanged.
C16_DefaultLimit ==
    phase = "sent" =>
        /\ Len(issued[1]) = 1
        /\ issued[1][1].endpoint = C16_Endpoint[call.accessor]
        /\ issued[1][1].period = call.period
        /\ (call.limit = <<>> /\ call.period = "annual") => issued[1][1].limit = 5
        /\ (call.limit = <<>> /\ call.period = "quarter") => issued[1][1].limit = 20
        /\ \A n \in 0..MaxLimit : call.limit = <<n>> => issued[1][1].limit = n

C16_Witness ==
    /\ phase = "sent"
    /\ call.accessor = "get_key_metrics"
    /\ call.period = "quarter"
    /\ call.limit = <<>>
    /\ issued[1][1].limit = 20

----------------------------------------------------------------------------
(* The bundle a successful fetch writes. *)

\* the slots of the bundle and the request whose payload each holds, as the
\* claim C17 gives them
C17_Slots ==
    { <<"annual_data", "income_statement", "income-statement", "annual">>,
      <<"annual_data", "balance_sheet", "balance-sheet-statement", "annual">>,
      <<"annual_data", "cash_flow", "cash-flow-statement", "annual">>,
      <<"annual_data", "ratios", "ratios", "annual">>,
      <<"annual_data", "metrics", "key-metrics", "annual">>,
      <<"quarterly_data", "income_statement", "income-statement", "quarter">>,
      <<"quarterly_data", "balance_sheet", "balance-sheet-statement", "quarter">>,
      <<"quarterly_data", "cash_flow", "cash-flow-statement", "quarter">>,
      <<"quarterly_data", "ratios", "ratios", "quarter">>,
      <<"quarterly_data", "metrics", "key-metrics", "quarter">>,
      <<"ltm_data", "income_statement", "income-statement-ltm", Absent>>,
      <<"ltm_data", "balance_sheet", "balance-sheet-statement-ltm", Absent>>,
      <<"ltm_data", "cash_flow", "cash-flow-statement-ltm", Absent>>,
      <<"ttm_data", "ratios", "ratios-ttm", Absent>>,
      <<"ttm_data", "metrics", "key-metrics-ttm", Absent>> }

\* the name is the symbol with its dots replaced by underscores, '_', a
\* timestamp yyyyMMdd_HHmmss and .json
C17_NamedAfter(name, symbol) ==
    LET n == Len(symbol)
    IN /\ Len(name) = n + 21
       /\ \A i \in 1..n : name[i] = IF symbol[i] = "." THEN "_" ELSE symbol[i]
       /\ name[n + 1] = "_"
       /\ IsDigit(SubSeq(name, n + 2, n + 9))
       /\ name[n + 10] = "_"
       /\ IsDigit(SubSeq(name, n + 11, n + 16))
       /\ SubSeq(name, n + 17, n + 21) = DotJson

\* C17: a successful per-symbol fetch writes exactly one output file, named by
\* the symbol with dots replaced by underscores followed by '_' and the
\* timestamp, and each slot of the bundle in it holds exactly the payload
\* returned by its own request, none swapped.
C17_OneFileOwnPayloads ==
    /\ \A u \in Units :
          pc[u] = "saved" =>
              /\ output_file[u] \in DOMAIN files
              /\ C17_NamedAfter(output_file[u], SymbolOf(u))
              /\ \A s \in C17_Slots :
                    files[output_file[u]][s[1]][s[2]]
                        = [symbol |-> SymbolOf(u), endpoint |-> s[3], period |-> s[4]]
    /\ (command = "fetch_financial_data" /\ pc[1] = "saved") =>
          DOMAIN files = {output_file[1]}
    /\ (command = "fetch_financial_data" /\ pc[1] # "saved") => files = EmptyDir

C17_Witness ==
    /\ command = "fetch_financial_data"
    /\ args_symbol = Samsung.symbol
    /\ pc = <<"saved">>
    /\ Cardinality(DOMAIN files) = 1
    /\ \A f \in DOMAIN files :
          f = output_file[1]
          /\ files[f].annual_data.income_statement.endpoint = "income-statement"
          /\ files[f].ttm_data.metrics.endpoint = "key-metrics-ttm"

----------------------------------------------------------------------------
(* The batch run: the pool and the counters. *)

\* the work units whose fetch has been entered and has not returned
C18_InProgress ==
    {u \in Units : pc[u] \in {"resolve", "fetch", "saved", "caught", "crashed"}
                   /\ result[u] = "pending"}

\* C18: at every moment of a batch run at most worker_count per-symbol fetches
\* are in progress, each on its own pool thread, and a pool thread starts its
\* next fetch only after its current fetch has run to completion.
C18_BoundedPool ==
    /\ [](/\ Cardinality(C18_InProgress) <= workers
          /\ \A u \in C18_InProgress : \E t \in DOMAIN cur : cur[t] = u
          /\ \A t1, t2 \in DOMAIN cur : (t1 # t2 /\ cur[t1] # 0) => cur[t1] # cur[t2])
    /\ [][\A t \in DOMAIN cur :
            (run' = run /\ cur'[t] # cur[t])
                => \/ cur[t] = 0
                   \/ (cur'[t] = 0 /\ result'[cur[t]] # "pending")]_vars

C18_Witness ==
    /\ workers = 1
    /\ Len(futures) = 2
    /\ cur[1] = 2
    /\ pc[2] = "fetch"
    /\ result[1] = "True"

\* C19: the success and failure counters are written only by the coordinating
\* thread, once per collected work unit and in submission order (a step that
\* changes a counter collects the next future, adds one to exactly one counter
\* and is no step of a worker); so the counters always count the collected
\* units, and the final success count is the number of work units whose fetch
\* returned true, whatever the order in which the workers complete.
C19_CountersByCoordinator ==
    /\ [](phase \in {"collect", "reported"} =>
            /\ success = Cardinality({u \in 1..collected : result[u] = "True"})
            /\ failure = Cardinality({u \in 1..collected : result[u] # "True"}))
    /\ [](phase = "reported" =>
            success = Cardinality({u \in Units : result[u] = "True"}))
    /\ [][(run' = run /\ (success' # success \/ failure' # failure)) =>
            /\ collected' = collected + 1
            /\ result[collected'] # "pending"
            /\ success' = success + (IF result[collected'] = "True" THEN 1 ELSE 0)
            /\ failure' = failure + (IF result[collected'] = "True" THEN 0 ELSE 1)
            /\ result' = result /\ pc' = pc /\ cur' = cur /\ files' = files]_vars

\* both workers have completed; the result of the first unit is counted, the
\* result of the second, already there, is not yet
C19_Witness ==
    /\ phase = "collect"
    /\ workers = 2
    /\ collected = 1
    /\ result = <<"True", "False">>
    /\ success = 1
    /\ failure = 0
    /\ cur = <<0, 0>>

----------------------------------------------------------------------------
(* The batch run with requests that may hang, and with the scheduling that  *)
(* makes it progress: a thread that can take a step takes one, and a        *)
(* request that does not hang is answered or fails.                         *)

\* requests.get is called without a timeout: the request is never answered
Hang(u) ==
    /\ pc[u] = "fetch"
    /\ \E k \in InFlight(u) :
          /\ replies[u][k] = "pending"
          /\ replies' = [replies EXCEPT ![u][k] = "hung"]
    /\ UNCHANGED <<assets, files, now, run, phase, workers, processed, companies,
                   companies_to_process, futures, taken, cur, started, pc, issued,
                   output_file, result, collected, success, failure, resolved,
                   args_symbol, command, env_file, api_key, call,
                   progress, stock_list>>

\* the reference directories with one file: two companies, one whose fetch
\* issues its requests and one whose work unit raises
LiveDirs == {d \in AssetChoices : Cardinality(DOMAIN d) = 1}

InitLive == Init /\ assets \in LiveDirs

NextLive == Next \/ \E u \in Units : Hang(u)

SpecLive == InitLive /\ [][NextLive]_vars /\ WF_vars(RunStep)

\* C20: if every per-symbol fetch eventually returns, a batch run eventually
\* collects every submitted work unit and reports its final counts; if one
\* fetch never returns, the run never reports final counts, and its worker
\* thread takes no further work unit.
C20_ReportsUnlessHung ==
    /\ (phase = "submit") ~> (\/ phase = "reported" /\ collected = Len(futures)
                              \/ \E u \in Units : Hung(u))
    /\ [](\A u \in Units :
            Hung(u) => /\ phase # "reported"
                       /\ result[u] = "pending"
                       /\ \E t \in DOMAIN cur : cur[t] = u)
    /\ [][\A t \in DOMAIN cur :
            (cur[t] # 0 /\ Hung(cur[t])) => (run' = run /\ cur'[t] = cur[t])]_vars

\* the fetch of the first unit hangs on the only pool thread: the run waits for
\* its result for ever and the second unit is never started
C20_Witness ==
    /\ phase = "collect"
    /\ workers = 1
    /\ Len(futures) = 2
    /\ Hung(1)
    /\ cur = <<1>>
    /\ collected = 0
    /\ started[2] = 0
    /\ ~ENABLED RunStep

----------------------------------------------------------------------------
(* distribute_companies: the balance of the lists. *)

\* the companies of a country in a worker's list
C21_CountOf(w, country) ==
    Cardinality({i \in 1..Len(companies_to_process[w]) :
                    CountryOf(companies_to_process[w][i]) = country})

C21_Differ(a, b) == IF a >= b THEN a - b ELSE b - a

\* C21: distribute_companies balances by country: for every country and any
\* two workers the numbers of that country's unprocessed companies assigned to
\* the two workers differ by at most 1, and the total lengths of any two worker
\* lists differ by at most 1, for every outcome of the shuffles.
C21_BalancedByCountry ==
    phase = "distributed" =>
        \A w1, w2 \in 1..workers :
            /\ C21_Differ(Len(companies_to_process[w1]),
                          Len(companies_to_process[w2])) <= 1
            /\ \A country \in {"KR", "UNKNOWN"} :
                  C21_Differ(C21_CountOf(w1, country), C21_CountOf(w2, country)) <= 1

\* three unprocessed companies of two countries dealt to two workers
C21_Witness ==
    /\ phase = "distributed"
    /\ workers = 2
    /\ processed = {}
    /\ Len(companies) = 3
    /\ Cardinality({i \in 1..3 : CountryOf(companies[i]) = "KR"}) = 2
    /\ Len(companies_to_process[1]) = 2
    /\ C21_CountOf(1, "KR") = 1
    /\ C21_CountOf(2, "KR") = 1

----------------------------------------------------------------------------
(* The result loop of main() on its own: any number of futures, all of    *)
(* them finished, holding any results that change at most once along the  *)
(* submission order. The loop reads nothing but the futures' results; the *)
(* workers' variables stay as the run left them.                          *)

ProgressCompany(u) ==
    [symbol |-> [i \in 1..u |-> "A"], name |-> "n", country |-> Absent]

ProgressResults ==
    {[u \in 1..n |-> IF u <= k THEN a ELSE b] :
        n \in 0..MaxFutures, k \in 0..MaxFutures,
        a \in {"True", "False", "raised"}, b \in {"True", "False", "raised"}}

InitProgress ==
    /\ result \in ProgressResults
    /\ futures = [u \in 1..Len(result) |-> ProgressCompany(u)]
    /\ companies = futures
    /\ companies_to_process = <<futures>>
    /\ pc = [u \in 1..Len(result) |->
                CASE result[u] = "True" -> "saved"
                  [] result[u] = "False" -> "caught"
                  [] OTHER -> "raised"]
    /\ started = [u \in 1..Len(result) |-> 0]
    /\ issued = [u \in 1..Len(result) |-> <<>>]
    /\ replies = [u \in 1..Len(result) |-> <<>>]
    /\ output_file = [u \in 1..Len(result) |-> NoFile]
    /\ resolved = [u \in 1..Len(result) |-> NotFound]
    /\ taken = Len(result)
    /\ workers = 1
    /\ cur = <<0>>
    /\ assets = EmptyDir
    /\ files = EmptyDir
    /\ now = 0
    /\ run = 1
    /\ phase = "collect"
    /\ processed = {}
    /\ collected = 0
    /\ success = 0
    /\ failure = 0
    /\ args_symbol = <<>>
    /\ command = "fetch_all_companies_data"
    /\ env_file = TRUE
    /\ api_key = "key"
    /\ call = Absent
    /\ progress = <<>>
    /\ stock_list = <<>>

NextProgress ==
    \/ Collect
    \/ Report

SpecProgress == InitProgress /\ [][NextProgress]_vars

\* C22: a step of the result loop that collects one more future logs the
\* progress line, with the total success + failure, exactly when that total
\* has reached a positive multiple of 10; no other step of the loop logs it.
C22_ProgressAtMultiplesOfTen ==
    [][LET total == success' + failure'
       IN IF collected' = collected + 1 /\ total > 0 /\ total % 10 = 0
            THEN progress' = Append(progress, total)
            ELSE progress' = progress]_vars

\* 21 futures with successes and failures among them were collected: the
\* line was logged after the 10th and after the 20th, and the report followed.
C22_Witness ==
    /\ phase = "reported"
    /\ collected = 21
    /\ success > 0
    /\ failure > 0
    /\ progress = <<10, 20>>

----------------------------------------------------------------------------
(* One fetch command writes the file of its symbol; a batch run then scans *)
(* the output directory and distributes a universe of one company.         *)

SkipSymbols == {s \in ScanSymbols : \A i \in 1..Len(s) : s[i] \in {"A", "."}}

SkipUniverses == {<<[symbol |-> s, name |-> "n", country |-> Absent]>> : s \in SkipSymbols}

InitSkip ==
    /\ BatchIdle
    /\ files = EmptyDir
    /\ now = 0
    /\ phase = "idle"
    /\ companies \in SkipUniverses
    /\ processed = {}
    /\ workers = 1
    /\ companies_to_process = <<>>
    /\ args_symbol \in ScanSymbols
    /\ command = "fetch_financial_data"

\* the batch command, line 201, after the scan of line 193
DistributeScanned ==
    /\ phase = "scanned"
    /\ companies_to_process' \in distribute_companies(companies, processed, workers)
    /\ phase' = "distributed"
    /\ UNCHANGED <<assets, files, now, run, workers, processed, companies, futures,
                   taken, cur, started, pc, issued, replies, output_file, result,
                   collected, success, failure, resolved, args_symbol,
                   command, env_file, api_key, call,
                   progress, stock_list>>

NextSkip == SaveAlone \/ Scan \/ DistributeScanned

SpecSkip == InitSkip /\ [][NextSkip]_vars

\* the companies of the universe that reached no worker's list
C23_Skipped ==
    {companies[i].symbol : i \in {j \in 1..Len(companies) :
        \A w \in 1..Len(companies_to_process) :
            \A k \in 1..Len(companies_to_process[w]) :
                companies_to_process[w][k] # companies[j]}}

\* C23: when the output directory holds only the file the fetch command wrote
\* for its symbol, every symbol get_processed_companies returns is that symbol,
\* and the batch run skips no company but the one of that symbol.
C23_SkippedOnlyIfWritten ==
    phase = "distributed" =>
        /\ \A s \in processed : s = args_symbol
        /\ \A s \in C23_Skipped : s = args_symbol

----------------------------------------------------------------------------
(* The listing utilities populate an empty reference directory, one run    *)
(* after the other; then the batch command loads the universe, or a symbol *)
(* of the last stock list is looked up.                                    *)

\* the last utility has ended
ListingOver == pc[Len(pc)] \in {"listed", "list_error", "config_error"}

\* the files of a directory that hold a company: a file holding [] adds nothing
\* to a load wherever the glob yields it
Holding(dir) ==
    [f \in {g \in DOMAIN dir : dir[g] # <<>>} |-> dir[f]]

InitListing ==
    /\ assets = EmptyDir
    /\ run = 0
    /\ futures = <<>>
    /\ taken = 0
    /\ cur = <<>>
    /\ collected = 0
    /\ success = 0
    /\ failure = 0
    /\ env_file = TRUE
    /\ api_key = "key"
    /\ call = Absent
    /\ progress = <<>>
    /\ stock_list = <<>>
    /\ command \in ListingCommands
    /\ phase = "alone"
    /\ pc = <<"start">>
    /\ issued = <<<<>>>>
    /\ replies = <<<<>>>>
    /\ output_file = <<NoFile>>
    /\ result = <<"pending">>
    /\ resolved = <<NotFound>>
    /\ started = <<1>>
    /\ files = EmptyDir
    /\ now = 0
    /\ workers = 0
    /\ processed = {}
    /\ companies = <<>>
    /\ companies_to_process = <<>>
    /\ args_symbol = <<>>

\* python scripts/<utility>.py once more, after the previous run has ended
NextUtility ==
    /\ phase = "alone"
    /\ ListingOver
    /\ Len(pc) < MaxListings
    /\ command' \in ListingCommands
    /\ pc' = Append(pc, "start")
    /\ issued' = Append(issued, <<>>)
    /\ replies' = Append(replies, <<>>)
    /\ output_file' = Append(output_file, NoFile)
    /\ result' = Append(result, "pending")
    /\ resolved' = Append(resolved, NotFound)
    /\ started' = Append(started, 1)
    /\ UNCHANGED <<assets, files, now, run, phase, workers, processed, companies,
                   companies_to_process, futures, taken, cur, collected, success,
                   failure, args_symbol, env_file, api_key, call,
                   progress, stock_list>>

\* the batch command, lines 196-197: companies = fetcher.load_companies()
LoadUniverse ==
    /\ phase = "alone"
    /\ ListingOver
    /\ \E order \in GlobOrders(Holding(assets)) :
          companies' = load_companies(assets, Absent, order)
    /\ command' = "fetch_all_companies_data"
    /\ phase' = "loaded"
    /\ UNCHANGED <<assets, files, now, run, workers, processed,
                   companies_to_process, futures, taken, cur, started, pc, issued,
                   replies, output_file, result, collected, success, failure,
                   resolved, args_symbol, env_file, api_key, call,
                   progress, stock_list>>

\* the fetch command, line 214, for a symbol of the last stock list
FindListed ==
    /\ phase = "alone"
    /\ ListingOver
    /\ \E i \in 1..Len(stock_list), order \in GlobOrders(Holding(assets)) :
          /\ args_symbol' = stock_list[i].symbol
          /\ resolved' = <<find_company_by_symbol(assets, stock_list[i].symbol, order)>>
    /\ command' = "fetch_financial_data"
    /\ phase' = "resolved"
    /\ UNCHANGED <<assets, files, now, run, workers, processed, companies,
                   companies_to_process, futures, taken, cur, started, pc, issued,
                   replies, output_file, result, collected, success, failure,
                   env_file, api_key, call, progress, stock_list>>

NextListing ==
    \/ \E u \in Units : ListRequest(u)
    \/ \E u \in Units : ListSave(u)
    \/ \E u \in Units : ListFail(u)
    \/ NextUtility
    \/ LoadUniverse
    \/ FindListed

SpecListing == InitListing /\ [][NextListing]_vars

\* C24: the universe the batch command loads from a reference directory the
\* listing utilities have populated holds each symbol at most once, and so does
\* every submission order distribute_companies can give a single worker.
C24_UniverseWithoutRepeats ==
    phase = "loaded" =>
        /\ \A i, j \in 1..Len(companies) :
              i # j => companies[i].symbol # companies[j].symbol
        /\ \A lists \in distribute_companies(companies, {}, 1) :
              \A i, j \in 1..Len(SubmitOrder(lists)) :
                  i # j => SubmitOrder(lists)[i].symbol # SubmitOrder(lists)[j].symbol

\* get_companies_by_country.py has generated the reference files from the last
\* stock list
C25_Generated ==
    \A p \in ListedPairs :
        /\ ListingFileName(p[1], p[2]) \in DOMAIN assets
        /\ assets[ListingFileName(p[1], p[2])] =
              filter_companies_by_country(stock_list, p[2])

\* the symbol looked up is listed as a stock and carries a recognized suffix
C25_ListedWithSuffix ==
    /\ \E i \in 1..Len(stock_list) :
          stock_list[i].symbol = args_symbol /\ stock_list[i].type = "stock"
    /\ \E k \in 1..Len(suffix_to_country) :
          EndsWith(args_symbol, suffix_to_country[k].suffix)

\* C25: once get_companies_by_country.py has generated the reference data, every
\* file prefix load_companies reads for KR, JP, CN, HK and US has a file in
\* assets/, and a listed stock whose symbol carries a recognized suffix is
\* resolved.
C25_ListedSymbolsResolve ==
    (phase = "resolved" /\ C25_Generated) =>
        /\ \A c \in {"KR", "JP", "CN", "HK", "US"} :
              \A ex \in country_exchanges[c] :
                  \E f \in DOMAIN assets :
                      EndsWith(f, Companies_json) /\ StartsWith(PathStem(f), ex)
        /\ C25_ListedWithSuffix => resolved[1].found

====
